---- MODULE Spec2Model ----
(***************************************************************************)
(* Model of the monitor-mode discovery tracker of rtlamr2mqtt              *)
(* (app/helpers/monitor_mode.py): the classifier functions, the            *)
(* MonitorModeTracker catalog, its side file and the merge into the        *)
(* primary configuration file.                                             *)
(*                                                                         *)
(* Python values are tagged records: a str is a sequence of one-character  *)
(* strings, an int is an integer, None is None.  YAML scalars on disk are  *)
(* tokens (text plus a "quoted" flag), written by YamlRepresent and read   *)
(* by YamlResolve as PyYAML's safe_dump / safe_load do.                    *)
(***************************************************************************)
EXTENDS Integers, Sequences, FiniteSets, TLC

(* ------------------------------------------------------------------ *)
(* Python values                                                       *)
(* ------------------------------------------------------------------ *)
PyStr(s) == [t |-> "str", s |-> s, n |-> 0]
PyInt(n) == [t |-> "int", s |-> <<>>, n |-> n]
PyNone == [t |-> "none", s |-> <<>>, n |-> 0]
\* no value: a key a mapping does not hold (d[key] raises KeyError)
PyMissing == [t |-> "missing", s |-> <<>>, n |-> 0]

DigitChars == <<"0", "1", "2", "3", "4", "5", "6", "7", "8", "9">>
UpperChars == <<"A", "B", "C", "D", "E", "F", "G", "H", "I", "J", "K", "L", "M",
                "N", "O", "P", "Q", "R", "S", "T", "U", "V", "W", "X", "Y", "Z">>
LowerChars == <<"a", "b", "c", "d", "e", "f", "g", "h", "i", "j", "k", "l", "m",
                "n", "o", "p", "q", "r", "s", "t", "u", "v", "w", "x", "y", "z">>

IsDigit(c) == \E i \in 1..10 : DigitChars[i] = c
DigitVal(c) == (CHOOSE i \in 1..10 : DigitChars[i] = c) - 1
IsOctalDigit(c) == IsDigit(c) /\ DigitVal(c) <= 7
IsSign(c) == c = "+" \/ c = "-"

AllDigits(s) == \A i \in 1..Len(s) : IsDigit(s[i])

\* value of a digit string in the given base, most significant digit first
RECURSIVE DigitsValue(_, _)
DigitsValue(s, base) ==
    IF Len(s) = 0 THEN 0
    ELSE DigitsValue(SubSeq(s, 1, Len(s) - 1), base) * base + DigitVal(s[Len(s)])

\* decimal digits of a natural number
RECURSIVE NatDigits(_)
NatDigits(n) ==
    IF n < 10 THEN <<DigitChars[n + 1]>>
    ELSE Append(NatDigits(n \div 10), DigitChars[(n % 10) + 1])

\* str.lower() of one character and of a string
LowerChar(c) ==
    IF \E i \in 1..26 : UpperChars[i] = c
    THEN LowerChars[CHOOSE i \in 1..26 : UpperChars[i] = c]
    ELSE c
Lower(s) == [i \in 1..Len(s) |-> LowerChar(s[i])]

\* the digits of a str after an optional sign
Unsigned(s) == IF Len(s) > 0 /\ IsSign(s[1]) THEN SubSeq(s, 2, Len(s)) ELSE s

\* int(v) succeeds: an int, or a str of an optional sign and decimal digits
\* (the strings int() is given in this model hold no whitespace and no underscore)
IntCoercible(v) ==
    \/ v.t = "int"
    \/ v.t = "str" /\ Len(Unsigned(v.s)) > 0 /\ AllDigits(Unsigned(v.s))

\* int(v), for an IntCoercible v: leading zeros are dropped, base ten
IntOf(v) ==
    IF v.t = "int" THEN v.n
    ELSE IF Len(v.s) > 0 /\ v.s[1] = "-" THEN 0 - DigitsValue(Unsigned(v.s), 10)
    ELSE DigitsValue(Unsigned(v.s), 10)

\* str(v) as a character sequence
StrOf(v) ==
    IF v.t = "str" THEN v.s
    ELSE IF v.t = "int"
         THEN (IF v.n < 0 THEN <<"-">> \o NatDigits(0 - v.n) ELSE NatDigits(v.n))
    ELSE <<"N", "o", "n", "e">>

\* truth value of v in a condition
Truthy(v) ==
    \/ v.t = "str" /\ Len(v.s) > 0
    \/ v.t = "int" /\ v.n # 0
(* ------------------------------------------------------------------ *)
(* YAML scalars as safe_dump writes them and safe_load reads them      *)
(* ------------------------------------------------------------------ *)
Plain(s) == [q |-> FALSE, s |-> s]
Quoted(s) == [q |-> TRUE, s |-> s]

NullWords == {<<>>, <<"~">>, <<"n", "u", "l", "l">>, <<"N", "u", "l", "l">>,
              <<"N", "U", "L", "L">>}

\* the YAML 1.1 int forms PyYAML resolves, over signs and decimal digits:
\* [-+]?0[0-7]+ (octal) and [-+]?(0|[1-9][0-9]*) (decimal)
YamlIsOctal(d) == Len(d) > 1 /\ d[1] = "0" /\ \A i \in 2..Len(d) : IsOctalDigit(d[i])
YamlIsDecimal(d) == Len(d) > 0 /\ AllDigits(d) /\ (d[1] # "0" \/ Len(d) = 1)
YamlIsInt(s) == YamlIsOctal(Unsigned(s)) \/ YamlIsDecimal(Unsigned(s))
YamlIntValue(s) ==
    LET d == Unsigned(s)
        m == IF YamlIsOctal(d) THEN DigitsValue(d, 8) ELSE DigitsValue(d, 10)
    IN  IF s[1] = "-" THEN 0 - m ELSE m

\* the place of a key the mapping on disk does not hold
Absent == [q |-> TRUE, s |-> <<"<absent>">>]

\* safe_load of one scalar: a quoted scalar is a str, a plain one is resolved
YamlResolve(tok) ==
    IF tok = Absent THEN PyMissing
    ELSE IF tok.q THEN PyStr(tok.s)
    ELSE IF tok.s \in NullWords THEN PyNone
    ELSE IF YamlIsInt(tok.s) THEN PyInt(YamlIntValue(tok.s))
    ELSE PyStr(tok.s)

\* safe_dump writing every str plain
YamlRepresent_NeverQuoted(v) ==
    IF v.t = "missing" THEN Absent
    ELSE IF v.t = "int" THEN Plain(StrOf(v))
    ELSE IF v.t = "none" THEN Plain(<<"n", "u", "l", "l">>)
    ELSE Plain(v.s)

\* the emitter may write s plain in a block: s does not begin with an
\* indicator (the quotes and the backquote, which no string of this model
\* holds, are left out) and is no lone dash
PlainAllowed(s) ==
    /\ Len(s) > 0 /\ s # <<"-">>
    /\ s[1] \notin {"#", ",", "[", "]", "{", "}", "&", "*", "!", "|", ">", "%", "@"}

\* safe_dump of one scalar: a str is quoted when its plain form would not be read
\* back as a str, or when it cannot be written plain
YamlRepresent(v) ==
    IF v.t = "missing" THEN Absent
    ELSE IF v.t = "int" THEN Plain(StrOf(v))
    ELSE IF v.t = "none" THEN Plain(<<"n", "u", "l", "l">>)
    ELSE IF YamlResolve(Plain(v.s)).t = "str" /\ PlainAllowed(v.s) THEN Plain(v.s)
    ELSE Quoted(v.s)

\* a scalar on disk in the form safe_dump writes the value it is read as
YamlCanonical(tok) == YamlRepresent(YamlResolve(tok))

\* what a write of the scalar tok leaves when it stops after one byte or more of
\* it and before the newline that follows: bad (the text cannot be read: an open
\* quote, or half of a character that takes two bytes in UTF-8), or the scalar
\* tok.  A plain scalar cut short is the plain scalar of the characters
\* written; a quoted one is whole once its closing quote is written.
TokenCuts(tok) ==
    IF tok.q THEN {[bad |-> TRUE, tok |-> tok], [bad |-> FALSE, tok |-> tok]}
    ELSE {[bad |-> FALSE, tok |-> YamlCanonical(Plain(SubSeq(tok.s, 1, c)))] :
          c \in 1..Len(tok.s)}
         \cup {[bad |-> TRUE, tok |-> tok] :
               c \in {i \in 1..Len(tok.s) : tok.s[i] \in {"<U+00C2>", "<U+00B3>"}}}
\* the null a key with no value yet is read as
NullToken == Plain(<<"n", "u", "l", "l">>)

(* ------------------------------------------------------------------ *)
(* Classifier                                                          *)
(* ------------------------------------------------------------------ *)
ScmThreshold == 100000
R900Threshold == 50000

P_idm == <<"i", "d", "m">>
P_netidm == <<"n", "e", "t", "i", "d", "m">>
P_scm == <<"s", "c", "m">>
P_scmplus == <<"s", "c", "m", "+">>
P_r900 == <<"r", "9", "0", "0">>
P_r900bcd == <<"r", "9", "0", "0", "b", "c", "d">>

\* protocol = str(protocol).lower() if protocol else ''
ProtocolText(protocol) == IF Truthy(protocol) THEN Lower(StrOf(protocol)) ELSE <<>>

\* the threshold itself taken as above it
Above_OrEqual(consumption_rate, limit) ==
    Truthy(consumption_rate) /\ consumption_rate.n >= limit

\* consumption_rate and consumption_rate > limit (consumption is an int or None)
Above(consumption_rate, limit) == Truthy(consumption_rate) /\ consumption_rate.n > limit

\* the device classes the classifier knows, and one it does not
D_water == <<"w", "a", "t", "e", "r">>
D_gas == <<"g", "a", "s">>
D_energy == <<"e", "n", "e", "r", "g", "y">>
D_heat == <<"h", "e", "a", "t">>

guess_meter_type(protocol, consumption_rate) ==
    LET p == ProtocolText(protocol)
    IN  IF p \in {P_idm, P_netidm} THEN PyStr(D_energy)
        ELSE IF p \in {P_scm, P_scmplus}
             THEN (IF Above(consumption_rate, ScmThreshold) THEN PyStr(D_water)
                   ELSE PyStr(D_gas))
        ELSE IF p \in {P_r900, P_r900bcd}
             THEN (IF Above(consumption_rate, R900Threshold) THEN PyStr(D_water)
                   ELSE PyStr(D_gas))
        ELSE PyStr(D_energy)

\* the gas unit literal of the source: "ft", U+00C2, U+00B3
CubicFootUnit == <<"f", "t", "<U+00C2>", "<U+00B3>">>

\* an unknown device_class given the format of energy
FormatOf_UnknownAsEnergy(device_class) ==
    IF device_class \in {PyStr(D_water), PyStr(D_gas)}
    THEN PyStr(<<"#", "#", "#", "#", "#", "#", ".", "#", "#">>)
    ELSE PyStr(<<"#", "#", "#", "#", "#", "#", ".", "#", "#", "#">>)

\* a device_class that is no known class gets no format and no unit
FormatOf(device_class) ==
    IF device_class \in {PyStr(D_water), PyStr(D_gas)}
    THEN PyStr(<<"#", "#", "#", "#", "#", "#", ".", "#", "#">>)
    ELSE IF device_class = PyStr(D_energy)
         THEN PyStr(<<"#", "#", "#", "#", "#", "#", ".", "#", "#", "#">>)
    ELSE PyMissing

UnitOf(device_class) ==
    IF device_class = PyStr(D_water) THEN PyStr(<<"g", "a", "l">>)
    ELSE IF device_class = PyStr(D_gas) THEN PyStr(CubicFootUnit)
    ELSE IF device_class = PyStr(D_energy) THEN PyStr(<<"k", "W", "h">>)
    ELSE PyMissing

\* int(meter_id) or protocol.lower() raises (ValueError, TypeError, AttributeError)
SmartDefaultsRaises(meter_id, protocol) == ~IntCoercible(meter_id) \/ protocol.t # "str"

MeterName(meter_id) == <<"m", "e", "t", "e", "r", "_">> \o StrOf(meter_id)

\* one item of the primary meter list: a definition (scalar is missing) or,
\* read from a damaged file, a bare value
Definition(id, protocol, name, device_class, state_class, format, unit_of_measurement) ==
    [scalar |-> PyMissing, id |-> id, protocol |-> protocol, name |-> name,
     device_class |-> device_class, state_class |-> state_class, format |-> format,
     unit_of_measurement |-> unit_of_measurement]

get_smart_defaults(meter_id, protocol, device_class) ==
    Definition(PyInt(IntOf(meter_id)), PyStr(Lower(protocol.s)), PyStr(MeterName(meter_id)),
               device_class,
               PyStr(<<"t", "o", "t", "a", "l", "_",
                       "i", "n", "c", "r", "e", "a", "s", "i", "n", "g">>),
               FormatOf(device_class), UnitOf(device_class))
(* ------------------------------------------------------------------ *)
(* Bounds and inputs                                                   *)
(* ------------------------------------------------------------------ *)
\* MonitorModeTracker.max_meters of the trackers of this model
max_meters == 2
\* merge passes are taken while the primary meter list stays this short
MaxConfigMeters == 3

S_7 == <<"7">>
S_007 == <<"0", "0", "7">>
S_x == <<"x">>
S_SCM == <<"S", "C", "M">>

\* meter ids handed to add_meter: "7", "007", 7 and "x"
MeterIds == {PyStr(S_7), PyStr(S_007), PyInt(7), PyStr(S_x)}
\* protocols handed to add_meter: "SCM" and the non-text token 123
Protocols == {PyStr(S_SCM), PyInt(123)}
\* the consumption handed to add_meter
Consumptions == {PyInt(150000)}

\* a call on the tracker. op: the call; res: how it ended; why: what failed
Call(op, res, why) == [op |-> op, res |-> res, why |-> why]

(* ------------------------------------------------------------------ *)
(* The in-memory catalog (self.discovered_meters)                      *)
(* ------------------------------------------------------------------ *)
\* a dict is the sequence of its items in insertion order; isnone marks None;
\* scalar is the str or int that a cut catalog file can put in place of the
\* dict (PyNone otherwise)
Dict(items) == [isnone |-> FALSE, scalar |-> PyNone, items |-> items]
NoneCatalog == [isnone |-> TRUE, scalar |-> PyNone, items |-> <<>>]
ScalarCatalog(v) == [isnone |-> FALSE, scalar |-> v, items |-> <<>>]
EmptyCatalog == Dict(<<>>)
IsScalar(cat) == cat.scalar.t # "none"

\* word in text, on two str
Contains(text, word) ==
    \E i \in 0..(Len(text) - Len(word)) : SubSeq(text, i + 1, i + Len(word)) = word

\* len(self.discovered_meters) raises TypeError: None and an int have no len()
HasNoLen(cat) == cat.isnone \/ cat.scalar.t = "int"
\* not self.discovered_meters: None, an empty dict, '' or 0
CatalogFalsy(cat) ==
    IF IsScalar(cat) THEN ~Truthy(cat.scalar) ELSE cat.isnone \/ Len(cat.items) = 0

HasKey(items, k) == \E i \in 1..Len(items) : items[i].k = k
IndexOf(items, k) == CHOOSE i \in 1..Len(items) : items[i].k = k

\* d[k] = e on a dict: a present key keeps its place, a new key goes last
DictSet(items, k, e) ==
    IF HasKey(items, k)
    THEN [items EXCEPT ![IndexOf(items, k)] = [k |-> k, e |-> e]]
    ELSE Append(items, [k |-> k, e |-> e])

\* protocol = str(protocol) if protocol else ''
AddMeterProtocol(protocol) == PyStr(IF Truthy(protocol) THEN StrOf(protocol) ELSE <<>>)

\* one value of the catalog: an entry dict (scalar is missing, and so is a key
\* the dict lacks) or, read from a damaged file, a bare value
Entry(protocol, device_class, first_seen_consumption) ==
    [scalar |-> PyMissing, protocol |-> protocol, device_class |-> device_class,
     first_seen_consumption |-> first_seen_consumption]
ScalarEntry(v) ==
    [scalar |-> v, protocol |-> PyMissing, device_class |-> PyMissing,
     first_seen_consumption |-> PyMissing]

NewEntry(protocol, consumption) ==
    Entry(PyStr(Lower(AddMeterProtocol(protocol).s)),
          guess_meter_type(AddMeterProtocol(protocol), consumption),
          consumption)

\* meter_id in self.discovered_meters, where that can be evaluated: a key of
\* the dict, or a substring of a str put in its place
InCatalog(cat, meter_id) ==
    IF IsScalar(cat) THEN Contains(cat.scalar.s, meter_id.s)
    ELSE HasKey(cat.items, meter_id)

\* len(self.discovered_meters), where it has one
CatalogLen(cat) == IF IsScalar(cat) THEN Len(cat.scalar.s) ELSE Len(cat.items)

\* add_meter raises TypeError: "meter_id not in" on None or an int, an int
\* meter_id tested against a str, or the item assignment on a str
AddMeterRaises(cat, meter_id) ==
    \/ HasNoLen(cat)
    \/ /\ IsScalar(cat)
       /\ \/ meter_id.t # "str"
          \/ ~InCatalog(cat, meter_id) /\ CatalogLen(cat) < max_meters

\* AddMeterResult with the capacity test off by one (<= for <)
AddMeterResult_OffByOne(cat, meter_id) ==
    IF InCatalog(cat, meter_id) THEN "present"
    ELSE IF CatalogLen(cat) <= max_meters THEN "inserted"
    ELSE "full"

\* what add_meter does: "present", "full" or "inserted"
AddMeterResult(cat, meter_id) ==
    IF InCatalog(cat, meter_id) THEN "present"
    ELSE IF CatalogLen(cat) < max_meters THEN "inserted"
    ELSE "full"

\* add_meter without the membership test: a known meter is classified again
add_meter_Overwrite(cat, meter_id, protocol, consumption) ==
    IF AddMeterResult(cat, meter_id) \in {"inserted", "present"}
    THEN Dict(DictSet(cat.items, meter_id, NewEntry(protocol, consumption)))
    ELSE cat

\* self.discovered_meters after add_meter on a dict
add_meter(cat, meter_id, protocol, consumption) ==
    IF AddMeterResult(cat, meter_id) = "inserted"
    THEN Dict(DictSet(cat.items, meter_id, NewEntry(protocol, consumption)))
    ELSE cat
(* ------------------------------------------------------------------ *)
(* The catalog file (<config>_discovered.yaml)                         *)
(* ------------------------------------------------------------------ *)
\* kind: "absent"  no such file
\*       "garbage" not parsable as YAML
\*       "null"    an empty document (safe_load gives None)
\*       "nokey"   a mapping without the key discovered_meters
\*       "scalar"  a document that is one plain word; items holds its one token
\*       "dmnull"  discovered_meters: null
\*       "dmscalar" discovered_meters: a scalar; items holds its one token
\*       "dmmap"   discovered_meters: a mapping, its items in file order
CatFile(kind, items) == [kind |-> kind, items |-> items]

\* one item of a block on disk: its key (Absent for an item of a list), and
\* either a scalar or the fields of a mapping in written order
FileItem(k, scalar, fields) == [k |-> k, scalar |-> scalar, fields |-> fields]
Field(name, v) == [name |-> name, v |-> v]

N_device_class == <<"d", "e", "v", "i", "c", "e", "_", "c", "l", "a", "s", "s">>
N_first_seen_consumption ==
    <<"f", "i", "r", "s", "t", "_", "s", "e", "e", "n", "_",
      "c", "o", "n", "s", "u", "m", "p", "t", "i", "o", "n">>
N_protocol == <<"p", "r", "o", "t", "o", "c", "o", "l">>

\* the fields a mapping holds, without the ones it lacks
RECURSIVE Present(_)
Present(fields) ==
    IF Len(fields) = 0 THEN <<>>
    ELSE IF Head(fields).v = Absent THEN Present(Tail(fields))
    ELSE <<Head(fields)>> \o Present(Tail(fields))

\* mapping[name] on disk, Absent when the mapping lacks the key
FieldOf(rec, name) ==
    IF \E i \in 1..Len(rec.fields) : rec.fields[i].name = name
    THEN rec.fields[CHOOSE i \in 1..Len(rec.fields) : rec.fields[i].name = name].v
    ELSE Absent

\* safe_dump of one item of the catalog: the keys of an entry in sorted order
DumpEntry(item) ==
    IF item.e.scalar # PyMissing
    THEN FileItem(YamlRepresent(item.k), YamlRepresent(item.e.scalar), <<>>)
    ELSE FileItem(YamlRepresent(item.k), Absent,
                  Present(<<Field(N_device_class, YamlRepresent(item.e.device_class)),
                            Field(N_first_seen_consumption,
                                  YamlRepresent(item.e.first_seen_consumption)),
                            Field(N_protocol, YamlRepresent(item.e.protocol))>>))

LoadEntry(rec) ==
    IF rec.scalar # Absent THEN ScalarEntry(YamlResolve(rec.scalar))
    ELSE Entry(YamlResolve(FieldOf(rec, N_protocol)),
               YamlResolve(FieldOf(rec, N_device_class)),
               YamlResolve(FieldOf(rec, N_first_seen_consumption)))

\* ord(c) of the characters of this model
CharOrd(c) ==
    IF IsDigit(c) THEN 48 + DigitVal(c)
    ELSE IF \E i \in 1..26 : UpperChars[i] = c
         THEN 64 + (CHOOSE i \in 1..26 : UpperChars[i] = c)
    ELSE IF \E i \in 1..26 : LowerChars[i] = c
         THEN 96 + (CHOOSE i \in 1..26 : LowerChars[i] = c)
    ELSE IF c = "+" THEN 43 ELSE IF c = "-" THEN 45 ELSE 95

\* a < b on two str
RECURSIVE StrLess(_, _)
StrLess(a, b) ==
    IF Len(b) = 0 THEN FALSE
    ELSE IF Len(a) = 0 THEN TRUE
    ELSE IF a[1] = b[1] THEN StrLess(Tail(a), Tail(b))
    ELSE CharOrd(a[1]) < CharOrd(b[1])

\* k1 < k2 on two keys of one type
KeyLess(k1, k2) == IF k1.t = "int" THEN k1.n < k2.n ELSE StrLess(k1.s, k2.s)

\* sorted(mapping.items()) succeeds: the keys are all str or all int
Sortable(items) ==
    \/ \A i \in 1..Len(items) : items[i].k.t = "str"
    \/ \A i \in 1..Len(items) : items[i].k.t = "int"

\* the order safe_dump writes a mapping's items in: sorted by key (sort_keys
\* is on by default), or as they are when the keys cannot be compared
DumpOrder(items) ==
    IF ~Sortable(items) THEN items
    ELSE LET rank(i) == 1 + Cardinality({j \in 1..Len(items) :
                                            KeyLess(items[j].k, items[i].k)})
         IN  [p \in 1..Len(items) |->
                 items[CHOOSE i \in 1..Len(items) : rank(i) = p]]

\* safe_dump of {'discovered_meters': self.discovered_meters}
DumpCatalog(cat) ==
    IF cat.isnone THEN CatFile("dmnull", <<>>)
    ELSE IF IsScalar(cat) THEN CatFile("dmscalar", <<YamlRepresent(cat.scalar)>>)
    ELSE LET ordered == DumpOrder(cat.items)
         IN  CatFile("dmmap", [i \in 1..Len(ordered) |-> DumpEntry(ordered[i])])

\* safe_load of a mapping: keys are resolved, a repeated key keeps its first
\* place and takes the last value
RECURSIVE LoadItems(_)
LoadItems(recs) ==
    IF Len(recs) = 0 THEN <<>>
    ELSE DictSet(LoadItems(SubSeq(recs, 1, Len(recs) - 1)),
                 YamlResolve(recs[Len(recs)].k), LoadEntry(recs[Len(recs)]))

S_discovered_meters ==
    <<"d", "i", "s", "c", "o", "v", "e", "r", "e", "d", "_", "m", "e", "t", "e", "r", "s">>

\* data['discovered_meters'] is assigned: the file is read and is a mapping
\* with that key
LoadAssigns(file, readable) ==
    readable /\ file.kind \in {"dmnull", "dmscalar", "dmmap"}

\* self.discovered_meters after load_discovered_meters on a tracker that
\* holds cat: the value of the key, whatever it is, or cat as it was
load_discovered_meters(cat, file, readable) ==
    IF ~LoadAssigns(file, readable) THEN cat
    ELSE IF file.kind = "dmnull" THEN NoneCatalog
    ELSE IF file.kind = "dmscalar" THEN ScalarCatalog(YamlResolve(file.items[1]))
    ELSE Dict(LoadItems(file.items))

\* how load_discovered_meters ends: "nofile" (not a readable file), "failed"
\* (an exception caught and logged), "nokey" or "loaded".  A one-word
\* document that holds the text discovered_meters passes the "in" test and
\* fails at the subscript; with a logger, len() of the value just assigned
\* is logged inside the try block and raises on None and on an int
LoadResult(file, readable, has_logger) ==
    IF file.kind = "absent" \/ ~readable THEN "nofile"
    ELSE IF file.kind = "garbage" THEN "failed"
    ELSE IF file.kind = "scalar"
         THEN (IF Contains(file.items[1].s, S_discovered_meters) THEN "failed"
               ELSE "nokey")
    ELSE IF file.kind \in {"null", "nokey"} THEN "nokey"
    ELSE IF has_logger /\ HasNoLen(load_discovered_meters(EmptyCatalog, file, readable))
         THEN "failed"
    ELSE "loaded"

\* What a write that stops inside the content of one item leaves of it (the
\* content of an entry after "key:", of a list item after "-"): bad when the
\* text cannot be read, else the scalar or the fields read.
\*   nothing yet                         null
\*   a scalar item                       the scalar cut (TokenCuts)
\*   inside the name of the first field  the characters written, as a scalar
\*   inside the name of a later field    bad (a key without its colon)
\*   after "name:" of field j            the fields before j, and j null
\*   inside the value of field j         the fields before j, and j cut
ItemCut(bad, scalar, fields) == [bad |-> bad, scalar |-> scalar, fields |-> fields]
FieldCuts(rec, j) ==
    LET done == SubSeq(rec.fields, 1, j - 1)
        name == rec.fields[j].name
    IN  {ItemCut(FALSE, Absent, Append(done, Field(name, NullToken)))}
        \cup {IF c.bad THEN ItemCut(TRUE, Absent, <<>>)
               ELSE ItemCut(FALSE, Absent, Append(done, Field(name, c.tok))) :
               c \in TokenCuts(rec.fields[j].v)}
ItemCuts(rec) ==
    {ItemCut(FALSE, NullToken, <<>>)}
    \cup IF rec.scalar # Absent
         THEN {IF c.bad THEN ItemCut(TRUE, Absent, <<>>) ELSE ItemCut(FALSE, c.tok, <<>>) :
               c \in TokenCuts(rec.scalar)}
         ELSE IF Len(rec.fields) = 0 THEN {ItemCut(TRUE, Absent, <<>>), ItemCut(FALSE, Absent, <<>>)}
         ELSE {ItemCut(FALSE, YamlCanonical(Plain(SubSeq(rec.fields[1].name, 1, c))), <<>>) :
               c \in 1..Len(rec.fields[1].name)}
              \cup {ItemCut(TRUE, Absent, <<>>) : j \in 2..Len(rec.fields)}
              \cup UNION {FieldCuts(rec, j) : j \in 1..Len(rec.fields)}

\* What a write that stops inside a block of items leaves of the block: bad,
\* or `first` (the key of the first item without its colon, which is read as
\* a scalar in place of the block), or the items read: the ones before item i
\* whole and item i as cut.  The key of a later item without its colon cannot
\* be read.
ListCut(bad, first, items) == [bad |-> bad, first |-> first, items |-> items]
ListCutsAt(items, i) ==
    (IF items[i].k = Absent THEN {}
     ELSE IF i > 1 THEN {ListCut(TRUE, Absent, <<>>)}
     ELSE {IF c.bad THEN ListCut(TRUE, Absent, <<>>) ELSE ListCut(FALSE, c.tok, <<>>) :
           c \in TokenCuts(items[i].k)})
    \cup {IF c.bad THEN ListCut(TRUE, Absent, <<>>)
          ELSE ListCut(FALSE, Absent,
                       Append(SubSeq(items, 1, i - 1),
                              FileItem(items[i].k, c.scalar, c.fields))) :
          c \in ItemCuts(items[i])}
ListCuts(items) == UNION {ListCutsAt(items, i) : i \in 1..Len(items)}

\* discovered_meters: <one scalar>; a null there is the kind "dmnull"
ScalarCatFile(tok) ==
    IF YamlResolve(tok) = PyNone THEN CatFile("dmnull", <<>>)
    ELSE CatFile("dmscalar", <<tok>>)

\* every file a write of doc (a catalog document) leaves when it stops after
\* the open truncated the file and before the last byte: nothing, a part of
\* the key discovered_meters (a one-word document), the key with nothing under
\* it, and what is read of the value under it
CutCatalog(doc) ==
    {CatFile("null", <<>>), CatFile("dmnull", <<>>)}
    \cup {CatFile("scalar", <<Plain(SubSeq(S_discovered_meters, 1, c))>>) :
          c \in 1..Len(S_discovered_meters)}
    \cup CASE doc.kind = "dmnull" -> {ScalarCatFile(c.tok) : c \in TokenCuts(NullToken)}
           [] doc.kind = "dmscalar" ->
                 {IF c.bad THEN CatFile("garbage", <<>>) ELSE ScalarCatFile(c.tok) :
                  c \in TokenCuts(doc.items[1])}
           [] doc.kind = "dmmap" /\ Len(doc.items) = 0 -> {CatFile("garbage", <<>>), doc}
           [] OTHER ->
                 {IF c.bad THEN CatFile("garbage", <<>>)
                  ELSE IF c.first # Absent THEN ScalarCatFile(c.first)
                  ELSE CatFile("dmmap", c.items) :
                  c \in ListCuts(doc.items)}

\* how open(path, 'w') and safe_dump(doc, f) end, and the file they leave:
\* "ok" (the document), "openfail" (open raised: the file as it was) or "cut"
\* (the write raised after the open truncated the file)
Write(how, file) == [how |-> how, file |-> file]
WroteOk(doc) == Write("ok", doc)

\* the outcomes of the write of doc over file
WriteCatalog(doc, file) ==
    {WroteOk(doc), Write("openfail", file)} \cup {Write("cut", f) : f \in CutCatalog(doc)}

\* the outcomes of save_discovered_meters on the catalog file: every outcome
\* of the write where it may fail, else the one of a write that goes through
save_discovered_meters(cat, file, may_fail) ==
    IF may_fail THEN WriteCatalog(DumpCatalog(cat), file) ELSE {WroteOk(DumpCatalog(cat))}

\* how save_discovered_meters ends: "saved", or "failed" with what failed;
\* with a logger, len(self.discovered_meters) is logged after the write,
\* inside the try block
SaveResult(cat, w, has_logger) ==
    IF w.how = "ok"
    THEN (IF has_logger /\ HasNoLen(cat) THEN Call("save", "failed", "log")
          ELSE Call("save", "saved", ""))
    ELSE IF w.how = "openfail" THEN Call("save", "failed", "open")
    ELSE Call("save", "failed", "dump")
(* ------------------------------------------------------------------ *)
(* The primary configuration file and the merge pass                   *)
(* ------------------------------------------------------------------ *)
\* kind: "absent", "garbage", "null" (an empty document), "scalar" (a document
\* that is no mapping) or "doc": a mapping, with or without a list under the
\* key meters (its items in file order; meters: null reads as no list).
\* before and after stand for the other keys of the mapping, the ones written
\* before the key meters and the ones written after it (safe_dump sorts the
\* keys): 0 when there is none, 1 for the keys the user wrote, 2 for what a cut
\* write left of them
ConfFile(kind, hasmeters, meters, before, after) ==
    [kind |-> kind, hasmeters |-> hasmeters, meters |-> meters,
     before |-> before, after |-> after]

N_format == <<"f", "o", "r", "m", "a", "t">>
N_id == <<"i", "d">>
N_name == <<"n", "a", "m", "e">>
N_state_class == <<"s", "t", "a", "t", "e", "_", "c", "l", "a", "s", "s">>
N_unit_of_measurement ==
    <<"u", "n", "i", "t", "_", "o", "f", "_", "m", "e", "a", "s", "u", "r", "e", "m", "e", "n", "t">>

\* an item of the meter list that is no mapping
ScalarDefinition(v) ==
    [scalar |-> v, id |-> PyMissing, protocol |-> PyMissing, name |-> PyMissing,
     device_class |-> PyMissing, state_class |-> PyMissing, format |-> PyMissing,
     unit_of_measurement |-> PyMissing]

\* safe_dump of one item of the meter list: the keys of a definition in
\* sorted order
DumpDef(d) ==
    IF d.scalar # PyMissing THEN FileItem(Absent, YamlRepresent(d.scalar), <<>>)
    ELSE FileItem(Absent, Absent,
                  Present(<<Field(N_device_class, YamlRepresent(d.device_class)),
                            Field(N_format, YamlRepresent(d.format)),
                            Field(N_id, YamlRepresent(d.id)),
                            Field(N_name, YamlRepresent(d.name)),
                            Field(N_protocol, YamlRepresent(d.protocol)),
                            Field(N_state_class, YamlRepresent(d.state_class)),
                            Field(N_unit_of_measurement,
                                  YamlRepresent(d.unit_of_measurement))>>))
LoadDef(r) ==
    IF r.scalar # Absent THEN ScalarDefinition(YamlResolve(r.scalar))
    ELSE Definition(YamlResolve(FieldOf(r, N_id)), YamlResolve(FieldOf(r, N_protocol)),
                    YamlResolve(FieldOf(r, N_name)), YamlResolve(FieldOf(r, N_device_class)),
                    YamlResolve(FieldOf(r, N_state_class)), YamlResolve(FieldOf(r, N_format)),
                    YamlResolve(FieldOf(r, N_unit_of_measurement)))
DumpMeters(meters) == [i \in 1..Len(meters) |-> DumpDef(meters[i])]
LoadMeters(recs) == [i \in 1..Len(recs) |-> LoadDef(recs[i])]

\* config['meters'] as the pass sees it: the list, or [] for a missing or
\* empty one (and for a None document, which is replaced by {})
ConfigMeters(file) ==
    IF file.kind = "doc" /\ file.hasmeters THEN LoadMeters(file.meters) ELSE <<>>

\* every file a write of doc (a configuration document with a meter list that
\* is not empty) leaves when it stops after the open truncated the file and
\* before the last byte.
\*   before the first byte: an empty document;
\*   inside the keys before meters: a one-word document, a text that cannot be
\*     read, a part of those keys, or all of them;
\*   inside the key meters: a one-word document when it is the first key, else
\*     a text that cannot be read;
\*   after "meters:": the keys before it and no list;
\*   inside the list: the keys before it whole and the items read (ListCuts);
\*   inside the keys after the list: a text that cannot be read, or the
\*     document with a part of those keys or all of them
CutConfig(doc) ==
    {ConfFile("null", FALSE, <<>>, 0, 0), ConfFile("doc", FALSE, <<>>, doc.before, 0)}
    \cup (IF doc.before = 0 THEN {ConfFile("scalar", FALSE, <<>>, 0, 0)}
          ELSE {ConfFile("scalar", FALSE, <<>>, 0, 0), ConfFile("garbage", FALSE, <<>>, 0, 0),
                ConfFile("doc", FALSE, <<>>, 2, 0)})
    \cup {IF c.bad THEN ConfFile("garbage", FALSE, <<>>, 0, 0)
          ELSE ConfFile("doc", TRUE, c.items, doc.before, 0) :
          c \in ListCuts(doc.meters)}
    \cup (IF doc.after = 0 THEN {}
          ELSE {ConfFile("garbage", FALSE, <<>>, 0, 0),
                ConfFile("doc", TRUE, doc.meters, doc.before, 2), doc})

\* the outcomes of the write of doc over the primary configuration file
WriteConfig(doc, file) ==
    {WroteOk(doc), Write("openfail", file)} \cup {Write("cut", f) : f \in CutConfig(doc)}

\* m['id'] raises for an item of the list: an item that is no mapping
\* (TypeError) or a mapping without the key (KeyError)
LacksId(file) ==
    \E i \in 1..Len(ConfigMeters(file)) :
       ConfigMeters(file)[i].scalar # PyMissing \/ ConfigMeters(file)[i].id = PyMissing

\* existing_ids = {str(m['id']) for m in config['meters']}
ExistingIds(meters) == {StrOf(meters[i].id) : i \in 1..Len(meters)}

\* meter_id in existing_ids: a set of str holds no int
InExisting(meter_id, existing_ids) == meter_id.t = "str" /\ meter_id.s \in existing_ids

\* the budget test of the loop: added_count < self.max_meters
UnderBudget(added_count) == added_count < max_meters

\* get_smart_defaults(meter_id, meter_info['protocol'], meter_info['device_class'])
\* raises: the subscripts on an entry that is no dict (TypeError) or lacks the
\* key (KeyError), or the call itself
BuildRaises(item) ==
    \/ item.e.scalar # PyMissing
    \/ item.e.protocol = PyMissing
    \/ item.e.device_class = PyMissing
    \/ SmartDefaultsRaises(item.k, item.e.protocol)

\* MergeLoop with an entry that cannot be built skipped instead of ending the pass
RECURSIVE MergeLoop_SkipBad(_, _, _, _, _)
MergeLoop_SkipBad(items, i, existing_ids, meters, added_count) ==
    IF i > Len(items) THEN [meters |-> meters, added |-> added_count, raised |-> FALSE]
    ELSE IF /\ ~InExisting(items[i].k, existing_ids) /\ UnderBudget(added_count)
            /\ ~BuildRaises(items[i])
         THEN MergeLoop_SkipBad(items, i + 1, existing_ids,
                                Append(meters, get_smart_defaults(items[i].k,
                                    items[i].e.protocol, items[i].e.device_class)),
                                added_count + 1)
    ELSE MergeLoop_SkipBad(items, i + 1, existing_ids, meters, added_count)

\* the loop over self.discovered_meters.items() from entry i on: the meter
\* list, the count of additions, and whether get_smart_defaults raised
RECURSIVE MergeLoop(_, _, _, _, _)
MergeLoop(items, i, existing_ids, meters, added_count) ==
    IF i > Len(items) THEN [meters |-> meters, added |-> added_count, raised |-> FALSE]
    ELSE IF ~InExisting(items[i].k, existing_ids) /\ UnderBudget(added_count)
         THEN IF BuildRaises(items[i])
              THEN [meters |-> meters, added |-> added_count, raised |-> TRUE]
              ELSE MergeLoop(items, i + 1, existing_ids,
                             Append(meters, get_smart_defaults(items[i].k,
                                 items[i].e.protocol, items[i].e.device_class)),
                             added_count + 1)
    ELSE MergeLoop(items, i + 1, existing_ids, meters, added_count)

MergeOutcome(res, why, file) == [res |-> res, why |-> why, file |-> file]

\* ReadFailure with a missing file read as an empty document
ReadFailure_AbsentIsEmpty(file, readable) ==
    IF file.kind = "absent" THEN ""
    ELSE IF ~readable THEN "read"
    ELSE IF file.kind = "garbage" THEN "parse"
    ELSE IF file.kind = "scalar" \/ LacksId(file) THEN "shape"
    ELSE ""

\* reading and parsing the primary configuration raises: "" when it does not,
\* else what failed
ReadFailure(file, readable) ==
    IF file.kind = "absent" \/ ~readable THEN "read"
    ELSE IF file.kind = "garbage" THEN "parse"
    ELSE IF file.kind = "scalar" \/ LacksId(file) THEN "shape"
    ELSE ""

\* the document the pass dumps, with only the meter list kept: the other
\* keys of the document are lost
MergeDocument_MetersOnly(file, meters) == ConfFile("doc", TRUE, DumpMeters(meters), 0, 0)

\* the document the pass dumps: the loaded one with its meter list extended
MergeDocument(file, meters) ==
    ConfFile("doc", TRUE, DumpMeters(meters),
             IF file.kind = "doc" THEN file.before ELSE 0,
             IF file.kind = "doc" THEN file.after ELSE 0)

\* how a pass whose loop ended as r goes on: "failed" when a definition could
\* not be built, "nochange" when added_count is 0, else "write"
LoopEnd(file, r) ==
    IF r.raised THEN MergeOutcome("failed", "build", file)
    ELSE IF r.added = 0 THEN MergeOutcome("nochange", "", file)
    ELSE MergeOutcome("write", "", MergeDocument(file, r.meters))

\* one merge pass up to its write: res is "empty" (nothing discovered),
\* "failed" (an exception caught and logged; why names it: "read", "parse",
\* "shape" of the document, "catalog" that is no dict, "build" of a
\* definition), "nochange", or "write" with the document to dump.
\* (config['meters'] and the result of the loop are each computed once and
\* bound as values: old and r.)
MergePass(cat, file, readable) ==
    IF CatalogFalsy(cat) THEN MergeOutcome("empty", "", file)
    ELSE LET failure == ReadFailure(file, readable)
         IN  IF failure # "" THEN MergeOutcome("failed", failure, file)
             ELSE IF IsScalar(cat) THEN MergeOutcome("failed", "catalog", file)
             ELSE CHOOSE o \in
                     {LoopEnd(file, r) :
                         r \in {MergeLoop(cat.items, 1, ExistingIds(old), old, 0) :
                                   old \in {ConfigMeters(file)}}} : TRUE

\* the write of a pass that got to it: "wrote", or "failed" with why "open"
\* (the file is as it was) or "dump" (the file is what the cut left)
WritePass(pass, w) ==
    IF pass.res # "write" THEN pass
    ELSE IF w.how = "openfail" THEN MergeOutcome("failed", "open", w.file)
    ELSE IF w.how # "ok" THEN MergeOutcome("failed", "dump", w.file)
    ELSE MergeOutcome("wrote", "", w.file)

\* the ends of one merge pass, each with its result and the primary
\* configuration file after it: a pass that gets to its write has every
\* outcome of the write where it may fail, else the one of a write that goes
\* through
update_config_with_discovered_meters(cat, file, readable, may_fail) ==
    UNION {{WritePass(pass, w) :
               w \in (IF pass.res = "write" /\ may_fail THEN WriteConfig(pass.file, file)
                      ELSE {WroteOk(pass.file)})} :
           pass \in {MergePass(cat, file, readable)}}
(* ------------------------------------------------------------------ *)
(* Files found at start-up                                             *)
(* ------------------------------------------------------------------ *)
S_10 == <<"1", "0">>

\* a catalog file written by hand or under a larger max_meters: the keys
\* '007', 7, 10 and x, of which the first max_meters + 1 are present; the
\* first entry has a device_class the classifier never gives
HandEntry(k, device_class) ==
    FileItem(k, Absent, <<Field(N_device_class, Plain(device_class)),
                          Field(N_first_seen_consumption, NullToken),
                          Field(N_protocol, Plain(P_scm))>>)
HandPool == <<HandEntry(Quoted(S_007), D_heat), HandEntry(Plain(S_7), D_gas),
              HandEntry(Plain(S_10), D_gas), HandEntry(Plain(S_x), D_gas)>>
HandCatalog == SubSeq(HandPool, 1, IF max_meters + 1 < 4 THEN max_meters + 1 ELSE 4)

InitCatFiles ==
    {CatFile("absent", <<>>), CatFile("garbage", <<>>), CatFile("nokey", <<>>),
     CatFile("dmnull", <<>>), CatFile("dmmap", HandCatalog)}

\* a meter the user configured by hand: id: 7
HandDef == DumpDef(get_smart_defaults(PyStr(S_7), PyStr(P_scm), PyStr(D_water)))

InitConfFiles ==
    {ConfFile("absent", FALSE, <<>>, 0, 0), ConfFile("garbage", FALSE, <<>>, 0, 0),
     ConfFile("null", FALSE, <<>>, 0, 0), ConfFile("scalar", FALSE, <<>>, 0, 0),
     ConfFile("doc", FALSE, <<>>, 1, 1), ConfFile("doc", TRUE, <<>>, 1, 1),
     ConfFile("doc", TRUE, <<HandDef>>, 1, 1)}

(* ------------------------------------------------------------------ *)
(* The path of the catalog file                                        *)
(* ------------------------------------------------------------------ *)
Ext_yaml == <<".", "y", "a", "m", "l">>
Ext_yml == <<".", "y", "m", "l">>
Suffix_discovered == <<"_", "d", "i", "s", "c", "o", "v", "e", "r", "e", "d">> \o Ext_yaml

\* s.replace(old, new): every occurrence of old, left to right
RECURSIVE Replace(_, _, _)
Replace(s, old, new) ==
    IF Len(s) < Len(old) THEN s
    ELSE IF SubSeq(s, 1, Len(old)) = old
         THEN new \o Replace(SubSeq(s, Len(old) + 1, Len(s)), old, new)
    ELSE <<s[1]>> \o Replace(Tail(s), old, new)

\* config_path.replace('.yaml', '_discovered.yaml')
\*            .replace('.yml', '_discovered.yaml')
discovered_path(config_path_) ==
    Replace(Replace(config_path_, Ext_yaml, Suffix_discovered), Ext_yml, Suffix_discovered)

\* config paths: up to MaxPathPieces pieces out of a name, a directory
\* separator and the two extension markers
MaxPathPieces == 3
PathPieces == {<<"a">>, <<"/">>, Ext_yaml, Ext_yml}
RECURSIVE PathsOf(_)
PathsOf(n) ==
    IF n = 1 THEN PathPieces
    ELSE PathsOf(n - 1) \cup {p \o q : p \in PathsOf(n - 1), q \in PathPieces}
ConfigPaths == PathsOf(MaxPathPieces)
\* the config path of the tracker whose catalog and merge are followed
DefaultConfigPath == <<"a">> \o Ext_yaml
\* no path opened yet
NoPath == <<>>

(* ------------------------------------------------------------------ *)
(* Direct calls of the classifier                                      *)
(* ------------------------------------------------------------------ *)
\* protocol arguments: the six protocols in lower and upper case, '', None,
\* the int 123 and an unknown name
ClassifyProtocols ==
    {PyStr(p) : p \in {P_idm, P_netidm, P_scm, P_scmplus, P_r900, P_r900bcd}}
    \cup {PyStr(<<"I", "D", "M">>), PyStr(<<"N", "e", "t", "I", "D", "M">>),
          PyStr(S_SCM), PyStr(<<"S", "C", "M", "+">>), PyStr(<<"R", "9", "0", "0">>),
          PyStr(<<"R", "9", "0", "0", "B", "C", "D">>)}
    \cup {PyStr(<<>>), PyNone, PyInt(123), PyStr(S_x)}
\* consumption arguments: None, 0, a negative value and the values around the
\* two thresholds
ClassifyConsumptions ==
    {PyNone, PyInt(0), PyInt(0 - 1), PyInt(R900Threshold), PyInt(R900Threshold + 1),
     PyInt(ScmThreshold), PyInt(ScmThreshold + 1), PyInt(150000)}
NoGuess == [protocol |-> PyNone, consumption_rate |-> PyNone, result |-> PyMissing]

(* ------------------------------------------------------------------ *)
(* State                                                               *)
(* ------------------------------------------------------------------ *)
VARIABLES
    discovered_meters,  \* self.discovered_meters of the live tracker
    discovered_file,    \* the catalog file on disk
    config_file,        \* the primary configuration file on disk
    last,               \* the last call made on the tracker and how it ended
    config_path,        \* self.config_path
    catalog_path,       \* the path load and save last derived for the catalog file
    guess,              \* the last direct call of guess_meter_type and its result
    logger,             \* self.logger is set (TRUE) or None (FALSE)
    spare               \* how many more writes may fail

vars == <<discovered_meters, discovered_file, config_file, last, config_path,
          catalog_path, guess, logger, spare>>

\* the writes that may fail in one run of the trackers that meet failures
MaxFaults == 1

\* MonitorModeTracker(config_path, max_meters, logger): the state after __init__
Start(catalog, config, has_logger, failures) ==
    /\ discovered_file = catalog
    /\ config_file = config
    /\ logger = has_logger
    /\ spare = failures
    /\ \E readable \in BOOLEAN :
          /\ discovered_meters =
                load_discovered_meters(EmptyCatalog, discovered_file, readable)
          /\ last = Call("construct", LoadResult(discovered_file, readable, logger), "")
    /\ config_path = DefaultConfigPath
    /\ catalog_path = discovered_path(config_path)
    /\ guess = NoGuess

Init == \E c \in InitCatFiles, f \in InitConfFiles, l \in BOOLEAN : Start(c, f, l, 0)

\* the owning process starts again: a new tracker on the same config path,
\* whose __init__ sets self.discovered_meters = {} and then loads
Construct ==
    \E readable \in BOOLEAN :
       /\ discovered_meters' =
             load_discovered_meters(EmptyCatalog, discovered_file, readable)
       /\ last' = Call("construct", LoadResult(discovered_file, readable, logger), "")
       /\ UNCHANGED <<discovered_file, config_file, config_path, catalog_path, guess,
                      logger, spare>>

\* tracker.load_discovered_meters() called on the live tracker: the catalog
\* it holds stays unless the file gives another
Load ==
    \E readable \in BOOLEAN :
       /\ discovered_meters' =
             load_discovered_meters(discovered_meters, discovered_file, readable)
       /\ last' = Call("load", LoadResult(discovered_file, readable, logger), "")
       /\ UNCHANGED <<discovered_file, config_file, config_path, catalog_path, guess,
                      logger, spare>>

\* tracker.add_meter(meter_id, protocol, consumption); res "raised" is an
\* exception that reaches the caller
AddMeter(meter_id, protocol, consumption) ==
    /\ IF AddMeterRaises(discovered_meters, meter_id)
       THEN /\ last' = Call("record", "raised", "")
            /\ UNCHANGED discovered_meters
       ELSE /\ discovered_meters' =
                  add_meter(discovered_meters, meter_id, protocol, consumption)
            /\ last' = Call("record", AddMeterResult(discovered_meters, meter_id), "")
    /\ UNCHANGED <<discovered_file, config_file, config_path, catalog_path, guess,
                   logger, spare>>

Record ==
    \E meter_id \in MeterIds, protocol \in Protocols, consumption \in Consumptions :
       AddMeter(meter_id, protocol, consumption)

\* tracker.save_discovered_meters()
Save ==
    \E w \in save_discovered_meters(discovered_meters, discovered_file, spare > 0) :
       /\ discovered_file' = w.file
       /\ last' = SaveResult(discovered_meters, w, logger)
       /\ spare' = IF w.how = "ok" THEN spare ELSE spare - 1
       /\ UNCHANGED <<discovered_meters, config_file, config_path, catalog_path, guess,
                      logger>>

\* tracker.update_config_with_discovered_meters()
Merge ==
    \E readable \in BOOLEAN :
    \E o \in update_config_with_discovered_meters(discovered_meters, config_file,
                                                   readable, spare > 0) :
       /\ Len(o.file.meters) <= MaxConfigMeters
       /\ config_file' = o.file
       /\ last' = Call("merge", o.res, o.why)
       /\ spare' = IF o.why \in {"open", "dump"} THEN spare - 1 ELSE spare
       /\ UNCHANGED <<discovered_meters, discovered_file, config_path, catalog_path,
                      guess, logger>>

\* one tracker from its construction on
Next == Record \/ Save \/ Merge

Spec == Init /\ [][Next]_vars

\* the catalog across restarts of the owning process
NextRestart == Record \/ Save \/ Construct \/ Load

\* the primary configuration plays no part across restarts
InitRestart ==
    \E c \in InitCatFiles, l \in BOOLEAN : Start(c, ConfFile("doc", TRUE, <<>>, 1, 1), l, 0)

SpecRestart == InitRestart /\ [][NextRestart]_vars

\* trackers that meet failing writes: up to MaxFaults writes of the catalog
\* file or of the primary configuration fail, at the open or at any byte of
\* the dump.  The tracker starts on no catalog file or on one that holds
\* null, over an empty primary configuration or one with other keys before
\* and after the meter list, has no logger, is handed the meter ids '7' and
\* 10, and is constructed again at any time.
FaultMeterIds == {PyStr(S_7), PyInt(10)}
InitFaults ==
    \E c \in {CatFile("absent", <<>>), CatFile("dmnull", <<>>)},
       f \in {ConfFile("null", FALSE, <<>>, 0, 0), ConfFile("doc", TRUE, <<>>, 1, 1)} :
       Start(c, f, FALSE, MaxFaults)

RecordFaults ==
    \E meter_id \in FaultMeterIds, consumption \in Consumptions :
       AddMeter(meter_id, PyStr(S_SCM), consumption)

NextFaults == RecordFaults \/ Save \/ Merge \/ Construct

SpecFaults == InitFaults /\ [][NextFaults]_vars

\* the catalog file read as a primary configuration, by a tracker whose
\* catalog path is its config path, after a save that meant to write doc: no
\* mapping, or a mapping without a meter list whose one key,
\* discovered_meters, sorts before meters and is whole or cut
ReadAsConfig(file, doc) ==
    IF file.kind \in {"absent", "garbage", "null", "scalar"}
    THEN ConfFile(file.kind, FALSE, <<>>, 0, 0)
    ELSE ConfFile("doc", FALSE, <<>>, IF file = doc THEN 1 ELSE 2, 0)

\* trackers on any config path, before __init__ has run.  There is no
\* primary configuration yet, or one with keys of the user and an empty meter
\* list (none where the path ends in a separator, which names a directory).
\* The catalog file is the file at the path derived from the config path:
\* it is absent, or, where the derived path is the config path, it is the
\* primary configuration, a mapping without the key discovered_meters.  The
\* directories the path names exist; up to MaxFaults writes fail.
InitPaths ==
    /\ config_path \in ConfigPaths
    /\ catalog_path = NoPath
    /\ discovered_meters = EmptyCatalog
    /\ config_file \in {ConfFile("absent", FALSE, <<>>, 0, 0)}
                       \cup {ConfFile("doc", TRUE, <<>>, 1, 1) :
                             x \in {config_path[Len(config_path)]} \ {"/"}}
    /\ discovered_file =
          IF discovered_path(config_path) = config_path /\ config_file.kind = "doc"
          THEN CatFile("nokey", <<>>)
          ELSE CatFile("absent", <<>>)
    /\ last = Call("none", "", "")
    /\ guess = NoGuess
    /\ logger = FALSE
    /\ spare \in {0, MaxFaults}

\* MonitorModeTracker(config_path): __init__ sets self.discovered_meters = {}
\* and load_discovered_meters derives the path and reads the file at it
LoadPath ==
    \E readable \in BOOLEAN :
       /\ catalog_path' = discovered_path(config_path)
       /\ discovered_meters' =
             load_discovered_meters(EmptyCatalog, discovered_file, readable)
       /\ last' = Call("construct", LoadResult(discovered_file, readable, logger), "")
       /\ UNCHANGED <<discovered_file, config_file, config_path, guess, logger, spare>>

\* tracker.save_discovered_meters(): the path is derived and the file at it
\* is opened for writing, which fails on a path that ends in a separator;
\* where the derived path is the config path, the file written is the
\* primary configuration
SavePath ==
    \E path \in {discovered_path(config_path)} :
    \E w \in (IF path[Len(path)] = "/"
              THEN {Write("openfail", discovered_file)}
              ELSE save_discovered_meters(discovered_meters, discovered_file,
                                          spare > 0)) :
       /\ catalog_path' = path
       /\ discovered_file' = w.file
       /\ config_file' =
             IF path = config_path /\ w.how # "openfail"
             THEN ReadAsConfig(w.file, DumpCatalog(discovered_meters))
             ELSE config_file
       /\ last' = SaveResult(discovered_meters, w, logger)
       /\ spare' = IF w.how = "ok" \/ path[Len(path)] = "/" THEN spare ELSE spare - 1
       /\ UNCHANGED <<discovered_meters, config_path, guess, logger>>

NextPaths == LoadPath \/ SavePath

SpecPaths == InitPaths /\ [][NextPaths]_vars

\* the classifier alone: guess_meter_type called on any protocol and consumption
InitClassify ==
    /\ guess = NoGuess
    /\ logger = FALSE
    /\ spare = 0
    /\ config_path = DefaultConfigPath
    /\ catalog_path = NoPath
    /\ discovered_meters = EmptyCatalog
    /\ discovered_file = CatFile("absent", <<>>)
    /\ config_file = ConfFile("absent", FALSE, <<>>, 0, 0)
    /\ last = Call("none", "", "")

GuessMeterType ==
    \E protocol \in ClassifyProtocols, consumption_rate \in ClassifyConsumptions :
       /\ guess' = [protocol |-> protocol, consumption_rate |-> consumption_rate,
                    result |-> guess_meter_type(protocol, consumption_rate)]
       /\ last' = Call("guess_meter_type", "returned", "")
       /\ UNCHANGED <<discovered_meters, discovered_file, config_file, config_path,
                      catalog_path, logger, spare>>

NextClassify == GuessMeterType

SpecClassify == InitClassify /\ [][NextClassify]_vars

\* merge passes that keep being scheduled on a primary configuration that can
\* be read and written: a tracker that starts on an empty catalog, is handed
\* the meter ids '7', '10' and 'x', and runs its merge pass again and again
LiveMeterIds == {PyStr(S_7), PyStr(S_10), PyStr(S_x)}

InitLive ==
    /\ discovered_meters = EmptyCatalog
    /\ discovered_file = CatFile("absent", <<>>)
    /\ config_file \in {f \in InitConfFiles : f.kind = "doc"}
    /\ last = Call("construct", "nofile", "")
    /\ config_path = DefaultConfigPath
    /\ catalog_path = discovered_path(config_path)
    /\ guess = NoGuess
    /\ logger = FALSE
    /\ spare = 0

RecordLive ==
    \E meter_id \in LiveMeterIds, protocol \in Protocols, consumption \in Consumptions :
       AddMeter(meter_id, protocol, consumption)

MergeOk ==
    \E o \in update_config_with_discovered_meters(discovered_meters, config_file,
                                                   TRUE, FALSE) :
        /\ Len(o.file.meters) <= MaxConfigMeters
        /\ config_file' = o.file
        /\ last' = Call("merge", o.res, o.why)
        /\ UNCHANGED <<discovered_meters, discovered_file, config_path, catalog_path,
                       guess, logger, spare>>

NextLive == RecordLive \/ MergeOk

SpecLive == InitLive /\ [][NextLive]_vars /\ WF_vars(MergeOk)

(* ------------------------------------------------------------------ *)
(* Properties                                                          *)
(* ------------------------------------------------------------------ *)
Items == discovered_meters.items
NonEmptyCatalog == ~discovered_meters.isnone /\ Len(Items) > 0

\* the ids of the primary configuration's meter list, as text, in list order
ConfigIds(file) == [i \in 1..Len(ConfigMeters(file)) |-> StrOf(ConfigMeters(file)[i].id)]
UniqueIds(file) ==
    \A i, j \in 1..Len(ConfigIds(file)) : i # j => ConfigIds(file)[i] # ConfigIds(file)[j]

\* a merge pass that ended without an error
MergeDone(call) == call.op = "merge" /\ call.res \in {"wrote", "nochange"}

\* C1 (merge idempotence): a merge pass that follows a merge pass, with the
\* catalog unchanged in between, leaves the primary configuration's meter list
\* as the first pass left it.  Stated here for the catalogs whose keys are
\* all of the documented type, str (such as "7" and "007").
C1_MergeIdempotent ==
    [][(MergeDone(last) /\ MergeDone(last')
           /\ \A i \in 1..Len(Items) : Items[i].k.t = "str") =>
         ConfigMeters(config_file') = ConfigMeters(config_file)]_vars

\* C2 (uniqueness after merge): a merge pass that starts with no two entries of
\* the meter list sharing an id ends with no two entries sharing an id.
C2_UniqueAfterMerge ==
    [][(last'.op = "merge" /\ UniqueIds(config_file)) => UniqueIds(config_file')]_vars

\* C3 (catalog capacity): in every state, from construction on, the catalog
\* holds at most max_meters entries.
C3_CatalogWithinCapacity == Len(Items) <= max_meters

\* C4 (first classification wins): add_meter never changes or moves an entry
\* the catalog already holds, and a call with a meter_id the catalog holds
\* leaves the whole catalog unchanged whatever its protocol and consumption.
C4_FirstClassificationWins ==
    [][last'.op = "record" =>
         /\ \A i \in 1..Len(Items) :
               /\ i <= Len(discovered_meters'.items)
               /\ discovered_meters'.items[i] = Items[i]
         /\ \A m \in MeterIds, p \in Protocols, c \in Consumptions :
               (AddMeter(m, p, c) /\ HasKey(Items, m)) =>
                   discovered_meters' = discovered_meters]_vars

\* C4 witness: add_meter was called with a meter_id the catalog holds
C4_Witness == last.op = "record" /\ last.res = "present" /\ NonEmptyCatalog

\* C5 (capacity is a hard ceiling): add_meter on a catalog that holds
\* max_meters entries or more, with a meter_id it does not hold, leaves the
\* catalog unchanged: nothing is inserted and nothing is evicted.
C5_CapacityCeiling ==
    [][\A m \in MeterIds, p \in Protocols, c \in Consumptions :
         (AddMeter(m, p, c) /\ ~HasKey(Items, m) /\ Len(Items) >= max_meters) =>
             discovered_meters' = discovered_meters]_vars

\* C5 witness: add_meter dropped a new meter_id on a full catalog
C5_Witness == last.op = "record" /\ last.res = "full" /\ Len(Items) >= max_meters

\* C6 (string keys): every key of the catalog is a str, and no two keys are the
\* same meter id written as an int and as a str.
C6_KeysAreStrings ==
    /\ \A i \in 1..Len(Items) : Items[i].k.t = "str"
    /\ \A i, j \in 1..Len(Items) : i # j => StrOf(Items[i].k) # StrOf(Items[j].k)

\* C7 (error containment): no call on the tracker raises to the owning process.
C7_NoCallRaises == last.res # "raised"

\* C8 (load result): after construction the catalog is a mapping: the file's
\* discovered_meters mapping when there is one, else the empty catalog.
C8_LoadGivesMapping ==
    last.op = "construct" =>
        /\ ~discovered_meters.isnone
        /\ discovered_meters =
              IF last.res = "loaded" /\ discovered_file.kind = "dmmap"
              THEN Dict(LoadItems(discovered_file.items)) ELSE EmptyCatalog

\* every definition of the catalog can be built
AllBuildable == \A i \in 1..Len(Items) : ~BuildRaises(Items[i])

\* C9 as claimed (missing primary configuration read as empty): a merge pass on
\* a non-empty catalog and an absent primary configuration file writes a
\* primary configuration holding the catalog's definitions.
C9_MissingConfigReadAsEmpty ==
    [][(last'.op = "merge" /\ NonEmptyCatalog /\ AllBuildable
           /\ config_file.kind = "absent" /\ last'.why \notin {"open", "dump"}) =>
         (config_file'.kind = "doc" /\ Len(config_file'.meters) > 0)]_vars

\* C9 as amended: a merge pass on a non-empty catalog whose read of the primary
\* configuration fails (the file is absent or unreadable) ends with the error
\* caught, builds and writes nothing and leaves the file as it was.
C9_MissingConfigAbortsPass ==
    [][(last'.op = "merge" /\ NonEmptyCatalog) =>
         /\ config_file.kind = "absent" => (last'.res = "failed" /\ last'.why = "read")
         /\ last'.why = "read" => config_file' = config_file]_vars

\* C9 witness: a pass on a non-empty catalog failed on an absent file
C9_Witness ==
    /\ last = Call("merge", "failed", "read")
    /\ NonEmptyCatalog /\ config_file.kind = "absent"

\* the pass reaches an entry whose meter_id is not integer-coercible: the entry
\* is not present by id, and fewer than max_meters entries before it are added
ReachesBadEntry(file) ==
    \E i \in 1..Len(Items) :
       /\ ~IntCoercible(Items[i].k)
       /\ ~InExisting(Items[i].k, ExistingIds(ConfigMeters(file)))
       /\ \A j \in 1..(i - 1) : ~BuildRaises(Items[j])
       /\ Cardinality({j \in 1..(i - 1) :
              ~InExisting(Items[j].k, ExistingIds(ConfigMeters(file)))}) < max_meters

\* C10 as claimed (a malformed meter id surfaces): a merge pass that reaches an
\* entry whose meter_id is not integer-coercible raises to its caller.
C10_InvalidMeterIdSurfaces ==
    [][(last'.op = "merge" /\ last'.why \notin {"read", "parse", "shape"}
           /\ ReachesBadEntry(config_file)) => last'.res = "raised"]_vars

\* C10 as amended: a merge pass that reaches such an entry ends with the error
\* caught like any other: the call returns, nothing is written and the primary
\* configuration file is left as it was.
C10_InvalidMeterIdContained ==
    [][(last'.op = "merge" /\ last'.why \notin {"read", "parse", "shape"}
           /\ ReachesBadEntry(config_file)) =>
         /\ last' = Call("merge", "failed", "build")
         /\ config_file' = config_file]_vars

\* C10 witness: a pass ended on an entry it could not build
C10_Witness == last = Call("merge", "failed", "build") /\ ReachesBadEntry(config_file)

\* every key of the catalog is integer-coercible
AllCoercible == \A i \in 1..Len(Items) : IntCoercible(Items[i].k)

\* the ids of the primary configuration's meter list, as integers
ConfigIdSet(file) ==
    {IntOf(ConfigMeters(file)[i].id) :
        i \in {j \in 1..Len(ConfigMeters(file)) : IntCoercible(ConfigMeters(file)[j].id)}}
ConfigIdSeq(file) == [i \in 1..Len(ConfigMeters(file)) |-> IntOf(ConfigMeters(file)[i].id)]

\* the catalog entries whose id the primary configuration does not hold, by
\* their place in the catalog, and the n-th of them in catalog order
MissingIdx(file) == {i \in 1..Len(Items) : IntOf(Items[i].k) \notin ConfigIdSet(file)}
NthMissing(file, n) ==
    CHOOSE i \in MissingIdx(file) :
        Cardinality({j \in MissingIdx(file) : j < i}) = n - 1

\* C11 (one-pass completeness): after a merge pass that read and wrote without
\* error, on a catalog of integer-coercible keys: when fewer than max_meters
\* entries were missing by id, every one of them is present by id; when more
\* than max_meters were missing, exactly max_meters definitions were appended,
\* those of the first max_meters missing entries in catalog order.
C11_OnePassComplete ==
    [][(MergeDone(last') /\ NonEmptyCatalog /\ AllCoercible) =>
         /\ Cardinality(MissingIdx(config_file)) < max_meters =>
               \A i \in MissingIdx(config_file) :
                   IntOf(Items[i].k) \in ConfigIdSet(config_file')
         /\ Cardinality(MissingIdx(config_file)) > max_meters =>
               /\ Len(ConfigMeters(config_file')) =
                     Len(ConfigMeters(config_file)) + max_meters
               /\ \A n \in 1..max_meters :
                     ConfigIdSeq(config_file')[Len(ConfigMeters(config_file)) + n] =
                         IntOf(Items[NthMissing(config_file, n)].k)]_vars

\* the keys of the primary configuration document other than meters
OtherKeys(file) == IF file.kind = "doc" THEN <<file.before, file.after>> ELSE <<0, 0>>

IsPrefix(s, r) == Len(s) <= Len(r) /\ SubSeq(r, 1, Len(s)) = s

\* C12 (merge preserves the existing configuration): after a merge pass that
\* wrote, the meter list of before the pass is a prefix of the meter list after
\* it, entry for entry, and the other keys of the document keep their value.
C12_MergePreservesConfig ==
    [][(last'.op = "merge" /\ last'.res = "wrote") =>
         /\ IsPrefix(ConfigMeters(config_file), ConfigMeters(config_file'))
         /\ Len(ConfigMeters(config_file')) > Len(ConfigMeters(config_file))
         /\ OtherKeys(config_file') = OtherKeys(config_file)]_vars

\* C12 witness: a pass wrote a document that had other keys and a meter
\* configured by hand, which is still first in the list
C12_Witness ==
    /\ last = Call("merge", "wrote", "")
    /\ OtherKeys(config_file) = <<1, 1>>
    /\ Len(config_file.meters) >= 2 /\ config_file.meters[1] = HandDef

\* every entry of the catalog is present by id in the primary configuration
AllPresentById(file) == AllCoercible /\ MissingIdx(file) = {}

\* C13 (no needless rewrite): a merge pass that ends without an error has
\* written the primary configuration exactly when it added a definition to
\* the meter list, and a pass on an empty
\* catalog, or on a catalog whose every entry is already present by id, leaves
\* the primary configuration file as it was.
C13_NoNeedlessRewrite ==
    [][last'.op = "merge" =>
         /\ MergeDone(last') =>
               (last'.res = "wrote" <=>
                   Len(ConfigMeters(config_file')) > Len(ConfigMeters(config_file)))
         /\ (~NonEmptyCatalog \/ AllPresentById(config_file)) =>
               config_file' = config_file]_vars

\* two catalogs equal as Python dicts: the same keys with the same entries
SameCatalog(a, b) ==
    /\ a.isnone = b.isnone /\ a.scalar = b.scalar
    /\ Len(a.items) = Len(b.items)
    /\ {a.items[i] : i \in 1..Len(a.items)} = {b.items[i] : i \in 1..Len(b.items)}

\* C14 (persistence round trip): a tracker constructed right after a save that
\* succeeded, on a catalog file it can read, loads a catalog equal to the one
\* saved, and saving that catalog again leaves the catalog file as it is.
C14_SaveLoadRoundTrip ==
    [][(last = Call("save", "saved", "") /\ last'.op = "construct"
          /\ last'.res # "nofile") =>
         /\ last'.res = "loaded"
         /\ SameCatalog(discovered_meters', discovered_meters)
         /\ \A w \in save_discovered_meters(discovered_meters', discovered_file, FALSE) :
               w.file = discovered_file]_vars

\* C14 witness: a restarted tracker holds the key '007' with the entry that
\* record made for it (protocol '123', consumption 150000), read back from the
\* catalog file next to the key 7
C14_Witness ==
    /\ last = Call("construct", "loaded", "")
    /\ \E i \in 1..Len(Items) :
          /\ Items[i].k = PyStr(S_007)
          /\ Items[i].e.protocol = PyStr(<<"1", "2", "3">>)
          /\ Items[i].e.first_seen_consumption = PyInt(150000)
    /\ \E i \in 1..Len(Items) : Items[i].k.t = "int"

\* C15 (catalog path derivation): the path a tracker derives for its catalog
\* file is never its own config path, and no tracker on another config path
\* derives the same catalog path.
C15_CatalogPathDistinct ==
    catalog_path # NoPath =>
        /\ catalog_path # config_path
        /\ \A p \in ConfigPaths :
              p # config_path => discovered_path(p) # catalog_path

\* the class the classification table gives a lower-cased protocol text
TableClass(p, consumption_rate) ==
    CASE p = P_idm \/ p = P_netidm -> PyStr(<<"e", "n", "e", "r", "g", "y">>)
      [] p = P_scm \/ p = P_scmplus ->
            IF consumption_rate.t = "int" /\ consumption_rate.n > 100000
            THEN PyStr(<<"w", "a", "t", "e", "r">>) ELSE PyStr(<<"g", "a", "s">>)
      [] p = P_r900 \/ p = P_r900bcd ->
            IF consumption_rate.t = "int" /\ consumption_rate.n > 50000
            THEN PyStr(<<"w", "a", "t", "e", "r">>) ELSE PyStr(<<"g", "a", "s">>)
      [] OTHER -> PyStr(<<"e", "n", "e", "r", "g", "y">>)

\* C16 (classification table): guess_meter_type returns the class the table
\* gives the lower-cased textual form of the protocol: energy for idm and
\* netidm, water above 100000 and gas otherwise for scm and scm+, water above
\* 50000 and gas otherwise for r900 and r900bcd, energy for everything else.
C16_ClassificationTable ==
    guess # NoGuess =>
        guess.result = TableClass(Lower(StrOf(guess.protocol)), guess.consumption_rate)

\* C16 witness: 'SCM' at exactly 100000 was classified, as gas
C16_Witness ==
    /\ guess.protocol = PyStr(S_SCM)
    /\ guess.consumption_rate = PyInt(100000)
    /\ guess.result = PyStr(D_gas)

\* the definition the defaults give one catalog item: the fields one by one
ExpectedFormat(device_class) ==
    CASE device_class = PyStr(D_water) -> PyStr(<<"#", "#", "#", "#", "#", "#", ".", "#", "#">>)
      [] device_class = PyStr(D_gas) -> PyStr(<<"#", "#", "#", "#", "#", "#", ".", "#", "#">>)
      [] device_class = PyStr(D_energy) ->
            PyStr(<<"#", "#", "#", "#", "#", "#", ".", "#", "#", "#">>)
      [] OTHER -> PyMissing
ExpectedUnit(device_class) ==
    CASE device_class = PyStr(D_water) -> PyStr(<<"g", "a", "l">>)
      [] device_class = PyStr(D_gas) -> PyStr(CubicFootUnit)
      [] device_class = PyStr(D_energy) -> PyStr(<<"k", "W", "h">>)
      [] OTHER -> PyMissing
ExpectedDef(item) ==
    [scalar |-> PyMissing,
     id |-> PyInt(IntOf(item.k)),
     name |-> PyStr(<<"m", "e", "t", "e", "r", "_">> \o StrOf(item.k)),
     protocol |-> PyStr(Lower(item.e.protocol.s)),
     device_class |-> item.e.device_class,
     state_class |-> PyStr(<<"t", "o", "t", "a", "l", "_",
                             "i", "n", "c", "r", "e", "a", "s", "i", "n", "g">>),
     format |-> ExpectedFormat(item.e.device_class),
     unit_of_measurement |-> ExpectedUnit(item.e.device_class)]

\* C17 (merged definition content): every definition a merge pass appends to
\* the primary configuration is the definition of one catalog entry: id the
\* integer value of its key, name meter_<key>, the entry's protocol and
\* device_class, state_class total_increasing, and the format and unit of that
\* device_class (none for a class other than water, gas and energy).
C17_MergedDefinitionContent ==
    [][(last'.op = "merge" /\ last'.res = "wrote") =>
         \A n \in (Len(ConfigMeters(config_file)) + 1)..Len(ConfigMeters(config_file')) :
            \E i \in 1..Len(Items) :
               /\ IntCoercible(Items[i].k) /\ Items[i].e.protocol.t = "str"
               /\ ConfigMeters(config_file')[n] = ExpectedDef(Items[i])]_vars

\* C17 witness: a pass wrote the definition of an entry of class heat, with no
\* format and no unit, and the definition of an entry of class gas
C17_Witness ==
    /\ last = Call("merge", "wrote", "")
    /\ \E n \in 1..Len(ConfigMeters(config_file)) :
          /\ ConfigMeters(config_file)[n].device_class = PyStr(D_heat)
          /\ ConfigMeters(config_file)[n].format = PyMissing
          /\ ConfigMeters(config_file)[n].unit_of_measurement = PyMissing
    /\ \E n \in 1..Len(ConfigMeters(config_file)) :
          /\ ConfigMeters(config_file)[n].device_class = PyStr(D_gas)
          /\ ConfigMeters(config_file)[n].unit_of_measurement = PyStr(CubicFootUnit)

\* C18 (monotone meter lifecycle): no record, save or merge call on a tracker
\* removes, moves or changes an entry the catalog holds, and no merge pass
\* removes an id from the meter list of the primary configuration.
C18_MonotoneLifecycle ==
    [][last'.op \in {"record", "save", "merge"} =>
         /\ \A i \in 1..Len(Items) :
               /\ i <= Len(discovered_meters'.items)
               /\ discovered_meters'.items[i] = Items[i]
         /\ last'.op = "merge" =>
               ConfigIdSet(config_file) \subseteq ConfigIdSet(config_file')]_vars

\* C19 (every discovered meter is eventually merged): while merge passes keep
\* being run on a primary configuration that can be read and written, every
\* catalog entry whose key int() accepts comes to be present by id in the
\* primary configuration, whatever the other entries of the catalog are.
C19_EventuallyMerged ==
    \A k \in LiveMeterIds :
        (HasKey(Items, k) /\ IntCoercible(k)) ~>
            (IntCoercible(k) /\ IntOf(k) \in ConfigIdSet(config_file))

\* C20 (a failed pass loses nothing on disk): a save or a merge pass that ends
\* in a failure leaves the catalog file and the primary configuration file
\* with the content they had before the pass.
C20_FailedPassKeepsFiles ==
    [][(last'.op \in {"save", "merge"} /\ last'.res = "failed") =>
         /\ discovered_file' = discovered_file
         /\ config_file' = config_file]_vars
====
